---------------------------- MODULE Spec2Model ----------------------------
(***************************************************************************)
(* The batching, reconnecting WebSocket transport of valtio-egwalker's     *)
(* stub build (dist-test/src/egwalker_api_stub.js, setupWebSocketSync) and *)
(* the remote-apply routine it drives.                                     *)
(*                                                                         *)
(* JavaScript runs one callback at a time, so every action below is one    *)
(* whole callback: a timer firing, a WebSocket event, a call of the public *)
(* API, or the delivery of a change notification.  valtio's                *)
(* subscribe(proxy, callback) is used without notifyInSync: a mutation of  *)
(* the proxy schedules ONE batched callback in a microtask, which runs     *)
(* when the current callback has returned and before any timer or socket   *)
(* event.  notifyPending is that scheduled microtask.                      *)
(***************************************************************************)
EXTENDS Integers, Sequences, FiniteSets

(***************************************************************************)
(* Bounds of the model (not program constants).                            *)
(***************************************************************************)
MaxLv == 3          \* operations a1..aMaxLv exist
MaxPending == 2     \* length of a list the document collaborator reports
MaxBatch == 4       \* pendingBatch is not grown past this by the environment
MaxFailures == 2    \* consecutive failed connections in Spec (SpecBackoff: no bound)
MaxText == 2        \* length of the document text
MaxRemote == 2      \* operations carried by one inbound batch / sync message
SENT_OPS_LIMIT == 2 \* capacity of sentOps: 10000 in the source, scaled down here
MaxEdits == 2       \* local edits in a row, and snapshots held by the two stacks

(***************************************************************************)
(* Program constants.                                                      *)
(***************************************************************************)
BATCH_DELAY_MS == 200
RECONNECT_BASE_DELAY_MS == 1000
RECONNECT_MAX_DELAY_MS == 30000
RECONNECT_MAX_ATTEMPTS == 10

VARIABLES
    connectionState,    \* 'connecting' | 'connected' | 'reconnecting' | 'disconnected'
    readyState,         \* ws.readyState of the current socket
    reconnectAttempts,
    reconnectTimer,     \* the timer behind reconnectTimeout is armed
    armedReconnects,    \* the setTimeout(connect, delay) timers that are armed
    liveSockets,        \* the WebSocket objects created that are CONNECTING or OPEN
    lastDelay,          \* delay given to the last setTimeout(connect, delay); 0: none yet
    isDisposed,
    subscribed,         \* the transport's subscription is active (unsubscribe not called)
    sentOps,            \* the Set, in insertion order
    pendingBatch,
    batchTimeout,       \* TRUE: the handle is non-null (its timer is armed)
    orphanTimers,       \* armed flush timers the handle no longer refers to
    isProcessingRemote,
    pendingOps,         \* proxyState.__pendingOps
    text,               \* proxyState.text
    notifyPending,      \* a change notification is scheduled
    sent,               \* history: messages given to ws.send by the last callback
    joins,              \* history: join messages sent on the current socket
    closeRun,           \* history: closes since the last open (or construction)
    everSent,           \* history: identities that were in some sent batch
    evicted,            \* history: identities ever evicted from sentOps
    inboundDirty,       \* history: the scheduled notification comes from an inbound message
    undoStack,          \* AgentUndoState.undoStack: snapshot texts, oldest first
    redoStack,          \* AgentUndoState.redoStack
    lastText,           \* AgentUndoState.lastText
    isSuppressed,       \* AgentUndoState.isSuppressed
    trackPending,       \* a change notification is scheduled for the undo-tracking callback
    lastOp,             \* history: the operation that ran last
    liftedAt,           \* history: <<live text, lastText before>> at suppressUndoTracking(false),
                        \* while only local edits ran since; else <<>>
    beforeUndo,         \* history: <<text, undoStack, redoStack>> before the effective undo() the last
                        \* call was (a notification may have run since); <<that>> after the redo()
                        \* that followed it; else <<>>
    timeline,           \* history: the texts the local edits went through, while Alone
    cursor,             \* history: the place in timeline undo() and redo() should reach; 0: not Alone
    undoManager,        \* config.undoManager: the session was created with undo enabled
    peer,               \* another session of this module: its proxy text and its undo state
    received,           \* history: the message handleMessage has just handled, else NoMessage
    flagTrace           \* history: the two suppression flags between the operations of that message

vars == <<connectionState, readyState, reconnectAttempts, reconnectTimer, armedReconnects,
          liveSockets, lastDelay,
          isDisposed, subscribed, sentOps, pendingBatch, batchTimeout, orphanTimers,
          isProcessingRemote, pendingOps, text, notifyPending, sent, joins, closeRun,
          everSent, evicted, inboundDirty, undoStack, redoStack, lastText, isSuppressed,
          trackPending, lastOp, liftedAt, beforeUndo, timeline, cursor, undoManager, peer,
          received, flagTrace>>

connVars == <<connectionState, readyState, reconnectAttempts, reconnectTimer,
              armedReconnects, liveSockets, lastDelay,
              isDisposed, joins, closeRun>>
batchVars == <<sentOps, pendingBatch, batchTimeout, orphanTimers, evicted>>
undoVars == <<undoStack, redoStack, lastText, isSuppressed, trackPending, lastOp, liftedAt, beforeUndo,
              timeline, cursor>>
transportVars == <<connVars, batchVars, subscribed, isProcessingRemote, pendingOps,
                   notifyPending, sent, everSent, inboundDirty>>

\* What every operation other than handleMessage and the peer session's
\* operations does to the rest: no message has just been handled, and the
\* configuration and the peer session stay as they are.
NoMessage == [type |-> "none", ops |-> <<>>]
Elsewhere ==
    /\ received' = NoMessage
    /\ flagTrace' = <<>>
    /\ UNCHANGED <<undoManager, peer>>

(***************************************************************************)
(* Data.                                                                   *)
(***************************************************************************)
Agents == {"a"}
Ops == [agent_id : Agents, lv : 1..MaxLv]
Chars == {"x"}

Min(a, b) == IF a < b THEN a ELSE b
Range(s) == {s[i] : i \in 1..Len(s)}
SeqsUpTo(S, n) == UNION {[1..k -> S] : k \in 0..n}
NoDup(s) == \A i, j \in 1..Len(s) : i # j => s[i] # s[j]
IsPrefix(s, t) == Len(s) <= Len(t) /\ SubSeq(t, 1, Len(s)) = s

\* `${op.agent_id}:${op.lv}`: lv is a number, so the last ':' splits the key
\* back into the pair; the key is the pair.
opKey(op) == <<op.agent_id, op.lv>>
Keys(s) == {opKey(s[i]) : i \in 1..Len(s)}

JoinMsg == [type |-> "join"]
BatchMsg(ops) == [type |-> "batch", ops |-> ops]
Batches(msgs) == {i \in 1..Len(msgs) : msgs[i].type = "batch"}

(***************************************************************************)
(* OperationBatcher: queueOperation and flushBatch.                        *)
(***************************************************************************)
\* sentOps.has(opKey)
Has(window, k) == \E i \in 1..Len(window) : window[i] = k

\* if (sentOps.size > SENT_OPS_LIMIT) delete sentOps.values().next().value:
\* the first key in insertion order goes.
EvictNewest(window) ==
    IF Len(window) > SENT_OPS_LIMIT THEN SubSeq(window, 1, Len(window) - 1) ELSE window
EvictOldest(window) == IF Len(window) > SENT_OPS_LIMIT THEN Tail(window) ELSE window
Evictees(window) == IF Len(window) > SENT_OPS_LIMIT THEN {Head(window)} ELSE {}

\* One call of queueOperation on q = [sentOps, pendingBatch, batchTimeout, evicted].
queueOperationNoTimer(q, op) ==
    IF Has(q.sentOps, opKey(op))
    THEN q
    ELSE LET added == Append(q.sentOps, opKey(op))
         IN  [sentOps      |-> EvictOldest(added),
              pendingBatch |-> Append(q.pendingBatch, op),
              batchTimeout |-> q.batchTimeout,
              evicted      |-> q.evicted \cup Evictees(added)]
queueOperationUnshift(q, op) ==
    IF Has(q.sentOps, opKey(op))
    THEN q
    ELSE LET added == Append(q.sentOps, opKey(op))
         IN  [sentOps      |-> EvictOldest(added),
              pendingBatch |-> <<op>> \o q.pendingBatch,
              batchTimeout |-> TRUE,
              evicted      |-> q.evicted \cup Evictees(added)]
queueOperation(q, op) ==
    IF Has(q.sentOps, opKey(op))
    THEN q
    ELSE LET added == Append(q.sentOps, opKey(op))
         IN  [sentOps      |-> EvictOldest(added),
              pendingBatch |-> Append(q.pendingBatch, op),
              batchTimeout |-> TRUE,
              evicted      |-> q.evicted \cup Evictees(added)]

\* for (const op of ops) queueOperation(op)
RECURSIVE queueAll(_, _)
queueAll(q, ops) ==
    IF ops = <<>> THEN q ELSE queueAll(queueOperation(q, Head(ops)), Tail(ops))

\* flushBatch sends unless pendingBatch is empty or the socket is not OPEN.
CanSendUnchecked(batch, rs) == batch # <<>>
CanSend(batch, rs) == ~(batch = <<>> \/ rs # "OPEN")
FlushOut(batch, rs) == IF CanSend(batch, rs) THEN <<BatchMsg(batch)>> ELSE <<>>
FlushRestDropping(batch, rs) == <<>>
FlushRest(batch, rs) == IF CanSend(batch, rs) THEN <<>> ELSE batch

\* ws.onopen: the join message, then flushBatch()
OpenMessagesJoinOnly(batch) == <<JoinMsg>>
OpenMessages(batch) == <<JoinMsg>> \o FlushOut(batch, "OPEN")
OpenRest(batch) == FlushRest(batch, "OPEN")

\* History kept with every callback: what it sent.
Record(msgs) ==
    /\ sent' = msgs
    /\ everSent' = everSent \cup UNION {Keys(msgs[i].ops) : i \in Batches(msgs)}

(***************************************************************************)
(* Timers.  A flush timer runs flushBatch, which does not look at          *)
(* isDisposed.  flushBatch called directly (onopen) drops the handle       *)
(* without clearTimeout, so the timer it referred to stays armed.          *)
(***************************************************************************)
FlushTimerFire ==
    /\ Elsewhere
    /\ UNCHANGED undoVars
    /\ ~notifyPending
    /\ batchTimeout
    /\ Record(FlushOut(pendingBatch, readyState))
    /\ pendingBatch' = FlushRest(pendingBatch, readyState)
    /\ batchTimeout' = FALSE
    /\ UNCHANGED <<connVars, subscribed, sentOps, orphanTimers, evicted,
                   isProcessingRemote, pendingOps, text, notifyPending, inboundDirty>>

OrphanTimerFire ==
    /\ Elsewhere
    /\ UNCHANGED undoVars
    /\ ~notifyPending
    /\ orphanTimers > 0
    /\ Record(FlushOut(pendingBatch, readyState))
    /\ pendingBatch' = FlushRest(pendingBatch, readyState)
    /\ batchTimeout' = FALSE
    /\ orphanTimers' = (orphanTimers - 1) + (IF batchTimeout THEN 1 ELSE 0)
    /\ UNCHANGED <<connVars, subscribed, sentOps, evicted,
                   isProcessingRemote, pendingOps, text, notifyPending, inboundDirty>>

(***************************************************************************)
(* ReconnectingTransport: connect, ws.onopen, ws.onclose.                  *)
(***************************************************************************)
RECURSIVE Pow2(_)
Pow2(n) == IF n = 0 THEN 1 ELSE 2 * Pow2(n - 1)

\* Math.min(RECONNECT_BASE_DELAY_MS * Math.pow(2, reconnectAttempts), RECONNECT_MAX_DELAY_MS)
ReconnectDelayUncapped(attempts) == RECONNECT_BASE_DELAY_MS * Pow2(attempts)
ReconnectDelay(attempts) ==
    Min(RECONNECT_BASE_DELAY_MS * Pow2(attempts), RECONNECT_MAX_DELAY_MS)

\* reconnectAttempts < RECONNECT_MAX_ATTEMPTS
MayRetryOnceMore(attempts) == attempts <= RECONNECT_MAX_ATTEMPTS
MayRetryOnceLess(attempts) == attempts + 1 < RECONNECT_MAX_ATTEMPTS
MayRetry(attempts) == attempts < RECONNECT_MAX_ATTEMPTS

\* ws.onopen: setState('connected'); reconnectAttempts = 0; send join; flushBatch()
WsOpenKeepsAttempts ==
    /\ Elsewhere
    /\ UNCHANGED undoVars
    /\ ~notifyPending
    /\ readyState = "CONNECTING"
    /\ readyState' = "OPEN"
    /\ connectionState' = "connected"
    /\ reconnectAttempts' = reconnectAttempts
    /\ Record(OpenMessages(pendingBatch))
    /\ pendingBatch' = OpenRest(pendingBatch)
    /\ batchTimeout' = FALSE
    /\ orphanTimers' = orphanTimers + (IF batchTimeout THEN 1 ELSE 0)
    /\ joins' = joins + 1
    /\ closeRun' = 0
    /\ UNCHANGED <<reconnectTimer, armedReconnects, liveSockets, lastDelay, isDisposed,
                   subscribed, sentOps, evicted,
                   isProcessingRemote, pendingOps, text, notifyPending, inboundDirty>>
WsOpen ==
    /\ Elsewhere
    /\ UNCHANGED undoVars
    /\ ~notifyPending
    /\ readyState = "CONNECTING"
    /\ readyState' = "OPEN"
    /\ connectionState' = "connected"
    /\ reconnectAttempts' = 0
    /\ Record(OpenMessages(pendingBatch))
    /\ pendingBatch' = OpenRest(pendingBatch)
    /\ batchTimeout' = FALSE
    /\ orphanTimers' = orphanTimers + (IF batchTimeout THEN 1 ELSE 0)
    /\ joins' = joins + 1
    /\ closeRun' = 0
    /\ UNCHANGED <<reconnectTimer, armedReconnects, liveSockets, lastDelay, isDisposed,
                   subscribed, sentOps, evicted,
                   isProcessingRemote, pendingOps, text, notifyPending, inboundDirty>>

\* ws.onclose
OnCloseIgnoresDisposed ==
    /\ Elsewhere
    /\ UNCHANGED undoVars
    /\ ~notifyPending
    /\ readyState \in {"CONNECTING", "OPEN", "CLOSING"}
    /\ readyState' = "CLOSED"
    /\ liveSockets' = liveSockets - (IF readyState \in {"CONNECTING", "OPEN"} THEN 1 ELSE 0)
    /\ closeRun' = closeRun + 1
    /\ IF FALSE
       THEN /\ connectionState' = "disconnected"
            /\ UNCHANGED <<reconnectAttempts, reconnectTimer, armedReconnects, lastDelay>>
       ELSE IF MayRetry(reconnectAttempts)
       THEN /\ connectionState' = "reconnecting"
            /\ lastDelay' = ReconnectDelay(reconnectAttempts)
            /\ reconnectAttempts' = reconnectAttempts + 1
            /\ reconnectTimer' = TRUE
            /\ armedReconnects' = armedReconnects + 1
       ELSE /\ connectionState' = "disconnected"
            /\ UNCHANGED <<reconnectAttempts, reconnectTimer, armedReconnects, lastDelay>>
    /\ Record(<<>>)
    /\ UNCHANGED <<isDisposed, joins, subscribed, batchVars,
                   isProcessingRemote, pendingOps, text, notifyPending, inboundDirty>>
OnCloseCountsGivingUp ==
    /\ Elsewhere
    /\ UNCHANGED undoVars
    /\ ~notifyPending
    /\ readyState \in {"CONNECTING", "OPEN", "CLOSING"}
    /\ readyState' = "CLOSED"
    /\ liveSockets' = liveSockets - (IF readyState \in {"CONNECTING", "OPEN"} THEN 1 ELSE 0)
    /\ closeRun' = closeRun + 1
    /\ IF isDisposed
       THEN /\ connectionState' = "disconnected"
            /\ UNCHANGED <<reconnectAttempts, reconnectTimer, armedReconnects, lastDelay>>
       ELSE IF MayRetry(reconnectAttempts)
       THEN /\ connectionState' = "reconnecting"
            /\ lastDelay' = ReconnectDelay(reconnectAttempts)
            /\ reconnectAttempts' = reconnectAttempts + 1
            /\ reconnectTimer' = TRUE
            /\ armedReconnects' = armedReconnects + 1
       ELSE /\ connectionState' = "disconnected"
            /\ reconnectAttempts' = reconnectAttempts + 1
            /\ UNCHANGED <<reconnectTimer, armedReconnects, lastDelay>>
    /\ Record(<<>>)
    /\ UNCHANGED <<isDisposed, joins, subscribed, batchVars,
                   isProcessingRemote, pendingOps, text, notifyPending, inboundDirty>>
OnClose ==
    /\ Elsewhere
    /\ UNCHANGED undoVars
    /\ ~notifyPending
    /\ readyState \in {"CONNECTING", "OPEN", "CLOSING"}
    /\ readyState' = "CLOSED"
    /\ liveSockets' = liveSockets - (IF readyState \in {"CONNECTING", "OPEN"} THEN 1 ELSE 0)
    /\ closeRun' = closeRun + 1
    /\ IF isDisposed
       THEN /\ connectionState' = "disconnected"
            /\ UNCHANGED <<reconnectAttempts, reconnectTimer, armedReconnects, lastDelay>>
       ELSE IF MayRetry(reconnectAttempts)
       THEN /\ connectionState' = "reconnecting"
            /\ lastDelay' = ReconnectDelay(reconnectAttempts)
            /\ reconnectAttempts' = reconnectAttempts + 1
            /\ reconnectTimer' = TRUE
            /\ armedReconnects' = armedReconnects + 1
       ELSE /\ connectionState' = "disconnected"
            /\ UNCHANGED <<reconnectAttempts, reconnectTimer, armedReconnects, lastDelay>>
    /\ Record(<<>>)
    /\ UNCHANGED <<isDisposed, joins, subscribed, batchVars,
                   isProcessingRemote, pendingOps, text, notifyPending, inboundDirty>>

\* The socket closes; in Spec at most MaxFailures connections fail in a row.
WsClose ==
    /\ isDisposed \/ reconnectAttempts < MaxFailures
    /\ OnClose

\* The reconnect timer fires and runs connect().  The timer was armed at
\* least RECONNECT_BASE_DELAY_MS ago, when the socket closed; a flush timer
\* lives BATCH_DELAY_MS, so a flush timer whose handle was dropped (it was
\* armed before the close, or replaced one that was) has fired by now.
ReconnectTimerFireKeepsTimer ==
    /\ Elsewhere
    /\ UNCHANGED undoVars
    /\ ~notifyPending
    /\ reconnectTimer
    /\ orphanTimers = 0 \/ lastDelay <= 2 * BATCH_DELAY_MS
    /\ UNCHANGED <<reconnectTimer, armedReconnects>>
    /\ IF isDisposed
       THEN UNCHANGED <<connectionState, readyState, liveSockets, joins>>
       ELSE /\ connectionState' = "connecting"
            /\ readyState' = "CONNECTING"
            /\ liveSockets' = liveSockets + 1
            /\ joins' = 0
    /\ Record(<<>>)
    /\ UNCHANGED <<reconnectAttempts, lastDelay, isDisposed, closeRun, subscribed, batchVars,
                   isProcessingRemote, pendingOps, text, notifyPending, inboundDirty>>
ReconnectTimerFire ==
    /\ Elsewhere
    /\ UNCHANGED undoVars
    /\ ~notifyPending
    /\ reconnectTimer
    /\ orphanTimers = 0 \/ lastDelay <= 2 * BATCH_DELAY_MS
    /\ reconnectTimer' = FALSE
    /\ armedReconnects' = armedReconnects - 1
    /\ IF isDisposed
       THEN UNCHANGED <<connectionState, readyState, liveSockets, joins>>
       ELSE /\ connectionState' = "connecting"
            /\ readyState' = "CONNECTING"
            /\ liveSockets' = liveSockets + 1
            /\ joins' = 0
    /\ Record(<<>>)
    /\ UNCHANGED <<reconnectAttempts, lastDelay, isDisposed, closeRun, subscribed, batchVars,
                   isProcessingRemote, pendingOps, text, notifyPending, inboundDirty>>

(***************************************************************************)
(* Remote apply (mockValtioEgwalker.apply_remote_op) and handleMessage.    *)
(* The session modelled here is created without undoManager, so            *)
(* apply_remote_op finds no agent state and touches the text only.         *)
(***************************************************************************)
Texts == SeqsUpTo(Chars, MaxText)

\* message.op is undefined or null: JSON.parse(JSON.stringify(undefined))
\* throws, and so does reading op.agent_id of null.
Malformed == [op_type |-> "none", content |-> <<>>, origin_left |-> 0]
InsertOps == [op_type : {"Insert"}, content : {<<"x">>}, origin_left : {0}]
DeleteOps == [op_type : {"Delete"}, content : {<<>>}, origin_left : {0}]
RemoteOps == InsertOps \cup DeleteOps \cup {Malformed}

\* String.prototype.slice(from, to): a negative index counts from the end,
\* every index is clamped into 0..length, and from >= to gives "".
SliceIndex(t, i) == IF i < 0 THEN (IF Len(t) + i < 0 THEN 0 ELSE Len(t) + i) ELSE Min(i, Len(t))
Slice(t, from, to) == SubSeq(t, SliceIndex(t, from) + 1, SliceIndex(t, to))

\* The text after apply_remote_op, and whether the call threw.
apply_remote_op(t, op) ==
    IF op = Malformed
    THEN [text |-> t, threw |-> TRUE]
    ELSE IF op.op_type = "Insert" /\ op.content # <<>>
    THEN LET pos == Min(op.origin_left, Len(t))
         IN  [text |-> Slice(t, 0, pos) \o op.content \o Slice(t, pos, Len(t)),
              threw |-> FALSE]
    ELSE IF op.op_type = "Delete"
    THEN LET pos == Min(op.origin_left, Len(t))
         IN  [text |-> IF pos < Len(t)
                       THEN Slice(t, 0, pos) \o Slice(t, pos + 1, Len(t))
                       ELSE t,
              threw |-> FALSE]
    ELSE [text |-> t, threw |-> FALSE]

\* for (const op of message.ops || []) apply_remote_op(...): stops at a throw.
RECURSIVE applyAll(_, _)
applyAll(t, ops) ==
    IF ops = <<>>
    THEN [text |-> t, threw |-> FALSE]
    ELSE LET r == apply_remote_op(t, Head(ops))
         IN  IF r.threw THEN r ELSE applyAll(r.text, Tail(ops))

\* The value of isProcessingRemote when handleMessage is left: the handler
\* sets it, applies, and clears it in the statement after the apply.
FlagAfterApply(threw) == threw

Messages ==
    [type : {"operation"}, ops : [1..1 -> RemoteOps]]
    \cup [type : {"batch", "sync"}, ops : SeqsUpTo(RemoteOps, MaxRemote)]
    \cup [type : {"join"}, ops : {<<>>}]

\* The environment keeps pendingBatch and the text within the bounds.
Room(ops) == Len(pendingBatch) + Len(ops) <= MaxBatch

(***************************************************************************)
(* Local mutations of the proxy, and the notification they schedule.       *)
(***************************************************************************)
\* The collaborator numbers an agent's operations upwards (lv), so a list it
\* reports is in ascending lv order; lists of one operation make every
\* sequence of queueOperation calls possible.
Ascending(ops) == \A i, j \in 1..Len(ops) : i < j => ops[i].lv < ops[j].lv
PendingLists == {ops \in SeqsUpTo(Ops, MaxPending) : Ascending(ops)}

\* proxy.__pendingOps = ops: the document collaborator has these pending.
SetPendingOps(ops) ==
    /\ Elsewhere
    /\ UNCHANGED undoVars
    /\ ~inboundDirty
    /\ Room(ops)
    /\ pendingOps' = ops
    /\ notifyPending' = TRUE
    /\ Record(<<>>)
    /\ UNCHANGED <<connVars, subscribed, batchVars, isProcessingRemote, text, inboundDirty>>

\* proxy.text = t
SetText(t) ==
    /\ Elsewhere
    /\ UNCHANGED undoVars
    /\ ~inboundDirty
    /\ Room(pendingOps)
    /\ t # text
    /\ text' = t
    /\ notifyPending' = TRUE
    /\ Record(<<>>)
    /\ UNCHANGED <<connVars, subscribed, batchVars, isProcessingRemote, pendingOps, inboundDirty>>

\* The callback given to subscribe: returns at once while isProcessingRemote,
\* else queues every operation get_pending_ops_json reports.
Callback(q) ==
    IF isProcessingRemote THEN q ELSE queueAll(q, pendingOps)

\* The scheduled notification runs the subscribed callback.
Notify ==
    /\ Elsewhere
    /\ UNCHANGED undoVars
    /\ notifyPending
    /\ notifyPending' = FALSE
    /\ inboundDirty' = FALSE
    /\ LET q0 == [sentOps |-> sentOps, pendingBatch |-> pendingBatch,
                  batchTimeout |-> batchTimeout, evicted |-> evicted]
           q1 == IF subscribed THEN Callback(q0) ELSE q0
       IN  /\ sentOps' = q1.sentOps
           /\ pendingBatch' = q1.pendingBatch
           /\ batchTimeout' = q1.batchTimeout
           /\ evicted' = q1.evicted
    /\ Record(<<>>)
    /\ UNCHANGED <<connVars, subscribed, orphanTimers, isProcessingRemote, pendingOps, text>>

(***************************************************************************)
(* dispose() -> cleanup.  ws.close() starts the close; onclose follows as  *)
(* the socket's close event.                                               *)
(***************************************************************************)
DisposeStaysSubscribed ==
    /\ Elsewhere
    /\ UNCHANGED undoVars
    /\ ~inboundDirty
    /\ ~isDisposed
    /\ isDisposed' = TRUE
    /\ subscribed' = subscribed
    /\ IF batchTimeout
       THEN /\ Record(FlushOut(pendingBatch, readyState))
            /\ pendingBatch' = FlushRest(pendingBatch, readyState)
       ELSE /\ Record(<<>>)
            /\ UNCHANGED pendingBatch
    /\ batchTimeout' = FALSE
    /\ reconnectTimer' = FALSE
    /\ armedReconnects' = armedReconnects - (IF reconnectTimer THEN 1 ELSE 0)
    /\ readyState' = IF readyState \in {"CONNECTING", "OPEN"} THEN "CLOSING" ELSE readyState
    /\ liveSockets' = liveSockets - (IF readyState \in {"CONNECTING", "OPEN"} THEN 1 ELSE 0)
    /\ UNCHANGED <<connectionState, reconnectAttempts, lastDelay, joins, closeRun,
                   sentOps, orphanTimers, evicted, isProcessingRemote, pendingOps, text,
                   notifyPending, inboundDirty>>

Dispose ==
    /\ Elsewhere
    /\ UNCHANGED undoVars
    /\ ~inboundDirty
    /\ ~isDisposed
    /\ isDisposed' = TRUE
    /\ subscribed' = FALSE
    /\ IF batchTimeout
       THEN /\ Record(FlushOut(pendingBatch, readyState))
            /\ pendingBatch' = FlushRest(pendingBatch, readyState)
       ELSE /\ Record(<<>>)
            /\ UNCHANGED pendingBatch
    /\ batchTimeout' = FALSE
    /\ reconnectTimer' = FALSE
    /\ armedReconnects' = armedReconnects - (IF reconnectTimer THEN 1 ELSE 0)
    /\ readyState' = IF readyState \in {"CONNECTING", "OPEN"} THEN "CLOSING" ELSE readyState
    /\ liveSockets' = liveSockets - (IF readyState \in {"CONNECTING", "OPEN"} THEN 1 ELSE 0)
    /\ UNCHANGED <<connectionState, reconnectAttempts, lastDelay, joins, closeRun,
                   sentOps, orphanTimers, evicted, isProcessingRemote, pendingOps, text,
                   notifyPending, inboundDirty>>

(***************************************************************************)
(* The state after createEgWalkerProxy({agentId, websocketUrl, roomId}):   *)
(* connect() has run once and the subscription is in place.                *)
(***************************************************************************)
Created ==
    /\ connectionState = "connecting"
    /\ readyState = "CONNECTING"
    /\ reconnectAttempts = 0
    /\ reconnectTimer = FALSE
    /\ armedReconnects = 0
    /\ liveSockets = 1
    /\ lastDelay = 0
    /\ isDisposed = FALSE
    /\ subscribed = TRUE
    /\ sentOps = <<>>
    /\ pendingBatch = <<>>
    /\ batchTimeout = FALSE
    /\ orphanTimers = 0
    /\ isProcessingRemote = FALSE
    /\ pendingOps = <<>>
    /\ text = <<>>
    /\ notifyPending = FALSE
    /\ sent = <<>>
    /\ joins = 0
    /\ closeRun = 0
    /\ everSent = {}
    /\ evicted = {}
    /\ inboundDirty = FALSE
    /\ undoStack = <<>>
    /\ redoStack = <<>>
    /\ lastText = <<>>
    /\ isSuppressed = FALSE
    /\ trackPending = FALSE
    /\ lastOp = "create"
    /\ liftedAt = <<>>
    /\ beforeUndo = <<>>
    /\ timeline = <<<<>>>>
    /\ cursor = 1
    /\ peer = [text |-> <<>>, undoStack |-> <<>>, redoStack |-> <<>>, lastText |-> <<>>,
               isSuppressed |-> FALSE, trackPending |-> FALSE]
    /\ received = NoMessage
    /\ flagTrace = <<>>

\* config.undoManager || false: the transport specifications run a session
\* without undo, the undo specifications one with it.
Init == Created /\ undoManager = FALSE
InitUndo == Created /\ undoManager = TRUE
InitAny == Created /\ undoManager \in BOOLEAN

(***************************************************************************)
(* Spec: the batcher and the connection under local mutations, timers,     *)
(* socket events and dispose().  A notification re-reads the whole pending *)
(* list, so reporting a list again is what any further mutation of the     *)
(* proxy does to the transport.                                            *)
(***************************************************************************)
Next ==
    \/ \E ops \in PendingLists : SetPendingOps(ops)
    \/ Notify
    \/ FlushTimerFire
    \/ OrphanTimerFire
    \/ WsOpen
    \/ WsClose
    \/ ReconnectTimerFire
    \/ Dispose

Spec == Init /\ [][Next]_vars

(***************************************************************************)
(* SpecBackoff: the connection state machine with any number of failed     *)
(* connections in a row; one operation is queued along the way.            *)
(***************************************************************************)
NextBackoff ==
    \/ SetPendingOps(<<[agent_id |-> "a", lv |-> 1]>>)
    \/ Notify
    \/ FlushTimerFire
    \/ OrphanTimerFire
    \/ WsOpen
    \/ OnClose
    \/ ReconnectTimerFire
    \/ Dispose

SpecBackoff == Init /\ [][NextBackoff]_vars

(***************************************************************************)
(* SpecDisposing: SpecBackoff where the close event of a socket that       *)
(* dispose() has closed (ws.close()) is eventually delivered.              *)
(***************************************************************************)
SpecDisposing ==
    /\ Init
    /\ [][NextBackoff]_vars
    /\ WF_vars(isDisposed /\ OnClose)

(***************************************************************************)
(* SpecFailing: no connection ever opens and the session is not disposed.  *)
(* A socket that does not open closes, an armed reconnect timer fires, and *)
(* a scheduled notification runs before the next timer or socket event.    *)
(***************************************************************************)
NextFailing ==
    \/ \E ops \in PendingLists : SetPendingOps(ops)
    \/ Notify
    \/ FlushTimerFire
    \/ OnClose
    \/ ReconnectTimerFire

SpecFailing ==
    /\ Init
    /\ [][NextFailing]_vars
    /\ WF_vars(Notify)
    /\ SF_vars(OnClose)
    /\ SF_vars(ReconnectTimerFire)

(***************************************************************************)
(* UndoRedoManager: the per-agent undo state of egwalker_api_stub.ts, for  *)
(* a session created with undoManager: true.  Snapshots are whole texts    *)
(* (the timestamp is never read).  The document collaborator of the stub   *)
(* reports no pending operations (get_pending_ops_json returns '[]'), so   *)
(* the transport's callback has nothing to queue here.                     *)
(***************************************************************************)
\* Characters typed by this agent are Chars; a remote operation inserts RemoteChar.
RemoteChar == "r"
UndoTexts == SeqsUpTo(Chars \cup {RemoteChar}, MaxText)
Remote(t) == SelectSeq(t, LAMBDA c : c = RemoteChar)

\* The local edits considered type and delete this agent's own characters.
LocalEdits(t) == {u \in UndoTexts : u # t /\ Remote(u) = Remote(t)}

RemoteInserts == [op_type : {"Insert"}, content : {<<RemoteChar>>}, origin_left : {0}]
UndoRemoteOps == RemoteInserts \cup DeleteOps \cup {Malformed}

\* proxyState.text together with agentStateMap.get(proxyState)
Session ==
    [text |-> text, undoStack |-> undoStack, redoStack |-> redoStack,
     lastText |-> lastText, isSuppressed |-> isSuppressed]

Top(stack) == stack[Len(stack)]
Pop(stack) == SubSeq(stack, 1, Len(stack) - 1)

\* The callback create_egwalker_proxy subscribes for undo tracking.
trackAlwaysClearsRedo(s) ==
    IF s.isSuppressed THEN s
    ELSE IF s.text # s.lastText
    THEN [s EXCEPT !.undoStack = Append(@, s.lastText),
                   !.redoStack = <<>>,
                   !.lastText = s.text]
    ELSE [s EXCEPT !.redoStack = <<>>]
trackKeepsRedo(s) ==
    IF s.isSuppressed THEN s
    ELSE IF s.text # s.lastText
    THEN [s EXCEPT !.undoStack = Append(@, s.lastText), !.lastText = s.text]
    ELSE s
track(s) ==
    IF s.isSuppressed THEN s
    ELSE IF s.text # s.lastText
    THEN [s EXCEPT !.undoStack = Append(@, s.lastText),
                   !.redoStack = <<>>,
                   !.lastText = s.text]
    ELSE s

\* mockValtioEgwalker.undo
undoClearsFlagWhenEmpty(s) ==
    IF s.undoStack = <<>> THEN [s EXCEPT !.isSuppressed = FALSE]
    ELSE [s EXCEPT !.redoStack = Append(@, s.text),
                   !.undoStack = Pop(@),
                   !.text = Top(s.undoStack),
                   !.lastText = Top(s.undoStack),
                   !.isSuppressed = FALSE]
undoStaleLastText(s) ==
    IF s.undoStack = <<>> THEN s
    ELSE [s EXCEPT !.redoStack = Append(@, s.text),
                   !.undoStack = Pop(@),
                   !.text = Top(s.undoStack),
                   !.isSuppressed = FALSE]
undoPushesLastText(s) ==
    IF s.undoStack = <<>> THEN s
    ELSE [s EXCEPT !.redoStack = Append(@, s.lastText),
                   !.undoStack = Pop(@),
                   !.text = Top(s.undoStack),
                   !.lastText = Top(s.undoStack),
                   !.isSuppressed = FALSE]
undo(s) ==
    IF s.undoStack = <<>> THEN s
    ELSE [s EXCEPT !.redoStack = Append(@, s.text),
                   !.undoStack = Pop(@),
                   !.text = Top(s.undoStack),
                   !.lastText = Top(s.undoStack),
                   !.isSuppressed = FALSE]

\* mockValtioEgwalker.redo
redoWithoutPush(s) ==
    IF s.redoStack = <<>> THEN s
    ELSE [s EXCEPT !.redoStack = Pop(@),
                   !.text = Top(s.redoStack),
                   !.lastText = Top(s.redoStack),
                   !.isSuppressed = FALSE]
redo(s) ==
    IF s.redoStack = <<>> THEN s
    ELSE [s EXCEPT !.undoStack = Append(@, s.text),
                   !.redoStack = Pop(@),
                   !.text = Top(s.redoStack),
                   !.lastText = Top(s.redoStack),
                   !.isSuppressed = FALSE]

\* mockValtioEgwalker.apply_remote_op with the agent state present: the
\* flag is set, the text changed (or the parse throws), and the finally
\* block sets lastText to the text and clears the flag.
applyRemoteOpStale(s, op) ==
    [s EXCEPT !.text = apply_remote_op(s.text, op).text, !.isSuppressed = FALSE]
applyRemoteOpNoFinally(s, op) ==
    LET r == apply_remote_op(s.text, op)
    IN  [s EXCEPT !.text = r.text,
                  !.lastText = IF r.threw THEN @ ELSE r.text,
                  !.isSuppressed = r.threw]
applyRemoteOp(s, op) ==
    LET r == apply_remote_op(s.text, op)
    IN  [s EXCEPT !.text = r.text, !.lastText = r.text, !.isSuppressed = FALSE]

\* mockValtioEgwalker.set_suppress_undo_tracking
set_suppress_without_resync(s, suppress) == [s EXCEPT !.isSuppressed = suppress]
set_suppress_undo_tracking(s, suppress) ==
    IF suppress
    THEN [s EXCEPT !.isSuppressed = TRUE]
    ELSE [s EXCEPT !.isSuppressed = FALSE, !.lastText = s.text]

\* The operations as createEgWalkerProxy hands them out: undo and redo
\* call through only if (config.undoManager); without undo no agent state
\* was created, so apply_remote_op and set_suppress_undo_tracking find none
\* (if (state)) and the first touches the text alone.
resultUndo(s) == IF undoManager THEN undo(s) ELSE s
resultRedo(s) == IF undoManager THEN redo(s) ELSE s
resultApplyRemoteOp(s, op) ==
    IF undoManager THEN applyRemoteOp(s, op)
    ELSE [s EXCEPT !.text = apply_remote_op(s.text, op).text]
resultSuppressUndoTracking(s, suppress) ==
    IF undoManager THEN set_suppress_undo_tracking(s, suppress) ELSE s

\* The session after an operation: a changed text schedules a notification
\* for the undo-tracking callback, which is subscribed if (undo_enabled).
Becomes(s) ==
    /\ text' = s.text
    /\ undoStack' = s.undoStack
    /\ redoStack' = s.redoStack
    /\ lastText' = s.lastText
    /\ isSuppressed' = s.isSuppressed
    /\ trackPending' = (undoManager /\ (trackPending \/ s.text # text))

\* History: so far this agent worked alone, with tracking never suppressed,
\* and every local edit was notified before the next edit, undo() or
\* redo() (the operation before them was not an edit).  The timeline is
\* kept as long as that is so.
Alone == undoManager /\ cursor > 0
Forget == timeline' = <<>> /\ cursor' = 0

\* proxy.text = t, by the user of the proxy
LocalEdit(t) ==
    /\ Elsewhere
    /\ t \in LocalEdits(text)
    /\ Len(undoStack) + Len(redoStack) < MaxEdits
    /\ Becomes([Session EXCEPT !.text = t])
    /\ IF Alone /\ lastOp # "edit"
       THEN /\ timeline' = Append(SubSeq(timeline, 1, cursor), t)
            /\ cursor' = cursor + 1
       ELSE Forget
    /\ lastOp' = "edit"
    /\ UNCHANGED <<liftedAt, transportVars>>
    /\ beforeUndo' = <<>>

\* The scheduled notification runs the undo-tracking callback.
TrackNotify ==
    /\ Elsewhere
    /\ trackPending
    /\ LET s == track(Session)
       IN  /\ undoStack' = s.undoStack
           /\ redoStack' = s.redoStack
           /\ lastText' = s.lastText
    /\ trackPending' = FALSE
    /\ lastOp' = "notify"
    /\ liftedAt' = <<>>
    /\ beforeUndo' = IF Len(beforeUndo) = 3 THEN beforeUndo ELSE <<>>
    /\ UNCHANGED <<text, isSuppressed, timeline, cursor, transportVars>>

\* result.undo() with undoManager: true
Undo ==
    /\ Elsewhere
    /\ Becomes(resultUndo(Session))
    /\ IF Alone /\ lastOp # "edit"
       THEN /\ timeline' = timeline
            /\ cursor' = IF cursor > 1 THEN cursor - 1 ELSE cursor
       ELSE Forget
    /\ lastOp' = "undo"
    /\ liftedAt' = <<>>
    /\ beforeUndo' = IF undoManager /\ undoStack # <<>>
                   THEN <<text, undoStack, redoStack>> ELSE <<>>
    /\ UNCHANGED transportVars

\* result.redo() with undoManager: true
Redo ==
    /\ Elsewhere
    /\ Becomes(resultRedo(Session))
    /\ IF Alone /\ lastOp # "edit"
       THEN /\ timeline' = timeline
            /\ cursor' = IF cursor < Len(timeline) THEN cursor + 1 ELSE cursor
       ELSE Forget
    /\ lastOp' = "redo"
    /\ liftedAt' = <<>>
    /\ beforeUndo' = IF Len(beforeUndo) = 3 THEN <<beforeUndo>> ELSE <<>>
    /\ UNCHANGED transportVars

\* result.applyRemoteOp(op); ws.onmessage of the stub makes the same call
\* for an 'operation' message.
ApplyRemoteOp(op) ==
    /\ received' = [type |-> "operation", ops |-> <<op>>]
    /\ flagTrace' = <<>>
    /\ UNCHANGED <<undoManager, peer>>
    /\ Len(apply_remote_op(text, op).text) <= MaxText
    /\ Becomes(resultApplyRemoteOp(Session, op))
    /\ Forget
    /\ lastOp' = "remote"
    /\ liftedAt' = <<>>
    /\ beforeUndo' = <<>>
    /\ UNCHANGED transportVars

\* result.suppressUndoTracking(suppress)
SetSuppressed(suppress) ==
    /\ Elsewhere
    /\ Becomes(resultSuppressUndoTracking(Session, suppress))
    /\ lastOp' = IF suppress THEN "suppress" ELSE "lift"
    /\ liftedAt' = IF suppress THEN <<>> ELSE <<text, lastText>>
    /\ beforeUndo' = <<>>
    /\ Forget
    /\ UNCHANGED transportVars

(***************************************************************************)
(* A second session of the same module.  create_egwalker_proxy makes a new *)
(* proxy object and a new AgentUndoState for every call and stores the     *)
(* state in agentStateMap under the proxy object; every operation finds    *)
(* its state with agentStateMap.get(proxyState).  Both sessions here were  *)
(* created with the same agentId and the same undoManager; this session's  *)
(* proxy was created last.                                                 *)
(***************************************************************************)
AgentIdOf(proxy) == "a"

\* The key agentStateMap.get(proxyState) looks up: the proxy object.
stateKeyByAgentId(proxy) ==
    IF AgentIdOf(proxy) = AgentIdOf("self") THEN "self" ELSE proxy
stateKey(proxy) == proxy

StateAt(key) == IF key = "self" THEN Session ELSE peer

\* The peer's proxy text together with agentStateMap.get(peer's proxy)
PeerSession ==
    LET state == StateAt(stateKey("peer"))
    IN  [text |-> peer.text, undoStack |-> state.undoStack,
         redoStack |-> state.redoStack, lastText |-> state.lastText,
         isSuppressed |-> state.isSuppressed]

\* The peer's session after one of its operations; notified: the operation
\* was the run of its scheduled notification.
PeerBecomes(s, notified) ==
    /\ LET pending == IF notified THEN FALSE
                      ELSE undoManager /\ (peer.trackPending \/ s.text # peer.text)
       IN  IF stateKey("peer") = "peer"
           THEN /\ peer' = [text |-> s.text, undoStack |-> s.undoStack,
                            redoStack |-> s.redoStack, lastText |-> s.lastText,
                            isSuppressed |-> s.isSuppressed, trackPending |-> pending]
                /\ UNCHANGED <<undoStack, redoStack, lastText, isSuppressed>>
           ELSE /\ peer' = [peer EXCEPT !.text = s.text, !.trackPending = pending]
                /\ undoStack' = s.undoStack
                /\ redoStack' = s.redoStack
                /\ lastText' = s.lastText
                /\ isSuppressed' = s.isSuppressed
    /\ Forget
    /\ lastOp' = "peer"
    /\ liftedAt' = <<>>
    /\ beforeUndo' = <<>>
    /\ received' = NoMessage
    /\ flagTrace' = <<>>
    /\ UNCHANGED <<text, trackPending, undoManager, transportVars>>

\* peerProxy.text = t
PeerEdit(t) ==
    /\ t \in LocalEdits(peer.text)
    /\ Len(PeerSession.undoStack) + Len(PeerSession.redoStack) < MaxEdits
    /\ PeerBecomes([PeerSession EXCEPT !.text = t], FALSE)

\* The peer's scheduled notification runs its undo-tracking callback.
PeerNotify ==
    /\ peer.trackPending
    /\ PeerBecomes(track(PeerSession), TRUE)

PeerUndo == PeerBecomes(resultUndo(PeerSession), FALSE)

PeerRedo == PeerBecomes(resultRedo(PeerSession), FALSE)

PeerApplyRemoteOp(op) ==
    /\ Len(apply_remote_op(peer.text, op).text) <= MaxText
    /\ PeerBecomes(resultApplyRemoteOp(PeerSession, op), FALSE)

(***************************************************************************)
(* Inbound messages.  handleMessage calls apply_remote_op for every        *)
(* element of the message, which also touches the agent's undo state when  *)
(* the session was created with undoManager.                               *)
(***************************************************************************)
\* The session after the handler's loop over message.ops: apply_remote_op
\* for each element until one throws (its finally has run by then).
RECURSIVE sessionAfter(_, _)
sessionAfter(s, ops) ==
    IF ops = <<>>
    THEN s
    ELSE IF apply_remote_op(s.text, Head(ops)).threw
    THEN resultApplyRemoteOp(s, Head(ops))
    ELSE sessionAfter(resultApplyRemoteOp(s, Head(ops)), Tail(ops))

\* The two flags each time the loop has applied one element and goes on to
\* the next: isProcessingRemote was set before the loop and is cleared after
\* it; state.isSuppressed is as apply_remote_op left it.
RECURSIVE flagsBetween(_, _)
flagsBetween(s, ops) ==
    IF Len(ops) <= 1 \/ apply_remote_op(s.text, Head(ops)).threw
    THEN <<>>
    ELSE LET s1 == resultApplyRemoteOp(s, Head(ops))
         IN  <<[isProcessingRemote |-> TRUE, isSuppressed |-> s1.isSuppressed]>>
                 \o flagsBetween(s1, Tail(ops))

\* ws.onmessage = handleMessage; a message event is delivered to an OPEN
\* socket only, after the notifications of the event before it have run.
HandleMessage(message) ==
    /\ received' = message
    /\ UNCHANGED <<undoManager, peer>>
    /\ ~notifyPending
    /\ ~trackPending
    /\ readyState = "OPEN"
    /\ Room(pendingOps)
    /\ IF message.type \in {"operation", "batch", "sync"}
       THEN LET r == applyAll(text, message.ops)
            IN  /\ Len(r.text) <= MaxText
                /\ Becomes(sessionAfter(Session, message.ops))
                /\ isProcessingRemote' = FlagAfterApply(r.threw)
                /\ flagTrace' = flagsBetween(Session, message.ops)
                /\ Forget
                /\ lastOp' = "remote"
                /\ liftedAt' = <<>>
                /\ beforeUndo' = <<>>
       ELSE /\ UNCHANGED <<text, isProcessingRemote, undoVars>>
            /\ flagTrace' = <<>>
    /\ notifyPending' = (text' # text)
    /\ inboundDirty' = (text' # text)
    /\ Record(<<>>)
    /\ UNCHANGED <<connVars, subscribed, batchVars, pendingOps>>

(***************************************************************************)
(* SpecFlushing: operations reported one at a time on a connection that    *)
(* opens, closes and reconnects, with timers that fire: an armed flush     *)
(* timer fires (setTimeout(flushBatch, BATCH_DELAY_MS)), and a scheduled   *)
(* notification runs.                                                      *)
(***************************************************************************)
NextFlushing ==
    \/ \E op \in Ops : SetPendingOps(<<op>>)
    \/ Notify
    \/ FlushTimerFire
    \/ OrphanTimerFire
    \/ WsOpen
    \/ WsClose
    \/ ReconnectTimerFire
    \/ Dispose

SpecFlushing ==
    /\ Init
    /\ [][NextFlushing]_vars
    /\ WF_vars(Notify)
    /\ SF_vars(FlushTimerFire)

(***************************************************************************)
(* SpecRemote: inbound messages interleaved with local edits and flush     *)
(* timers on a connection that opens and stays open.                       *)
(***************************************************************************)
NextRemote ==
    \/ \E ops \in PendingLists : SetPendingOps(ops)
    \/ \E t \in Texts : SetText(t)
    \/ Notify
    \/ FlushTimerFire
    \/ OrphanTimerFire
    \/ WsOpen
    \/ \E message \in Messages : HandleMessage(message)

SpecRemote == Init /\ [][NextRemote]_vars

(***************************************************************************)
(* result.applyRemoteOp(op) of a session created with websocketUrl and     *)
(* roomId: the same call of apply_remote_op, outside handleMessage.  The   *)
(* changed text schedules the notification of the transport's subscription.*)
(***************************************************************************)
ApplyRemoteOpWithSync(op) ==
    /\ Elsewhere
    /\ ~notifyPending
    /\ Room(pendingOps)
    /\ Len(apply_remote_op(text, op).text) <= MaxText
    /\ Becomes(resultApplyRemoteOp(Session, op))
    /\ Forget
    /\ lastOp' = "remote"
    /\ liftedAt' = <<>>
    /\ beforeUndo' = <<>>
    /\ notifyPending' = (text' # text)
    /\ inboundDirty' = (text' # text)
    /\ Record(<<>>)
    /\ UNCHANGED <<connVars, subscribed, batchVars, isProcessingRemote, pendingOps>>

(***************************************************************************)
(* SpecApplySynced: the public applyRemoteOp interleaved with local        *)
(* operations and flush timers on a connection that opens and stays open.  *)
(***************************************************************************)
NextApplySynced ==
    \/ \E ops \in PendingLists : SetPendingOps(ops)
    \/ Notify
    \/ FlushTimerFire
    \/ OrphanTimerFire
    \/ WsOpen
    \/ \E op \in InsertOps \cup DeleteOps : ApplyRemoteOpWithSync(op)

SpecApplySynced == Init /\ [][NextApplySynced]_vars

(***************************************************************************)
(* SpecInbound: inbound messages on an open connection of a session        *)
(* created with undoManager, which reports one local operation; the        *)
(* notifications a message schedules run before the next message.          *)
(***************************************************************************)
NextInbound ==
    \/ SetPendingOps(<<[agent_id |-> "a", lv |-> 1]>>)
    \/ FlushTimerFire
    \/ WsOpen
    \/ \E message \in Messages : HandleMessage(message)
    \/ Notify
    \/ TrackNotify

SpecInbound == InitUndo /\ [][NextInbound]_vars

(***************************************************************************)
(* SpecUndo: local edits, their notifications, undo(), redo(), remote      *)
(* applies and suppressUndoTracking in any order.                          *)
(***************************************************************************)
NextUndo ==
    \/ \E t \in UndoTexts : LocalEdit(t)
    \/ TrackNotify
    \/ Undo
    \/ Redo
    \/ \E op \in UndoRemoteOps : ApplyRemoteOp(op)
    \/ \E suppress \in BOOLEAN : SetSuppressed(suppress)

SpecUndo == InitUndo /\ [][NextUndo]_vars

\* SpecUndoAny: the same operations on a session created with or without
\* undoManager.
SpecUndoAny == InitAny /\ [][NextUndo]_vars

(***************************************************************************)
(* SpecSessions: two sessions with undo, created with the same agentId,    *)
(* each edited, notified, undone, redone and given remote operations in    *)
(* any order.                                                              *)
(***************************************************************************)
\* Each user types one character into an empty text or deletes it.
TypedTexts == {<<>>, <<"x">>}

NextSessions ==
    \/ \E t \in TypedTexts : LocalEdit(t)
    \/ TrackNotify
    \/ Undo
    \/ Redo
    \/ \E t \in TypedTexts : PeerEdit(t)
    \/ PeerNotify
    \/ PeerUndo
    \/ PeerRedo
    \/ \E op \in InsertOps : PeerApplyRemoteOp(op)

SpecSessions == InitUndo /\ [][NextSessions]_vars

(***************************************************************************)
(* SpecApply: apply_remote_op on every text, with operations at every      *)
(* position up to and past the end of the text, with and without content.  *)
(* origin_left is a number taken from the message as it is; -1 is the      *)
(* position before the start of the document.                              *)
(***************************************************************************)
ApplyOps ==
    [op_type : {"Insert", "Delete"}, content : {<<>>, <<RemoteChar>>},
     origin_left : (-1)..(MaxText + 1)]

NextApply ==
    \/ \E t \in UndoTexts : LocalEdit(t)
    \/ TrackNotify
    \/ \E op \in ApplyOps : ApplyRemoteOp(op)

SpecApply == InitUndo /\ [][NextApply]_vars

(***************************************************************************)
(* The claims.                                                             *)
(***************************************************************************)
SentBatches == {sent[i].ops : i \in Batches(sent)}
Idle == ~notifyPending /\ ~batchTimeout /\ orphanTimers = 0

\* C1: no batch message is sent while the connection is not open/connected:
\* whatever a callback sent, the transport is 'connected' when it returns,
\* so a flush run while connecting, reconnecting or disconnected sends nothing.
C1_NoSendUnlessConnected ==
    sent # <<>> => connectionState = "connected"

\* C1 witness: operations are buffered, every flush timer has fired and the
\* transport is reconnecting: the flush ran and was deferred.
C1_Witness ==
    /\ connectionState = "reconnecting"
    /\ ~isDisposed
    /\ pendingBatch # <<>>
    /\ Idle
    /\ sent = <<>>

\* C2: when the socket opens, the callback sends the join message first and
\* then, if pendingBatch is not empty, one batch message holding all of
\* pendingBatch; a socket gets one join, and a batch only after it.
C2_JoinThenBatch ==
    /\ [][(readyState # "OPEN" /\ readyState' = "OPEN") =>
            /\ sent' = IF pendingBatch = <<>>
                       THEN <<JoinMsg>>
                       ELSE <<JoinMsg, BatchMsg(pendingBatch)>>
            /\ pendingBatch' = <<>>
            /\ joins = 0]_vars
    /\ [](joins <= 1)
    /\ [](\A i \in Batches(sent) : joins = 1 /\ (i = 1 \/ (i = 2 /\ sent[1] = JoinMsg)))

\* C2 witness: a reconnected socket has just opened and sent the join and
\* a batch of two operations that were buffered while it was down.
C2_Witness ==
    /\ lastDelay > 0
    /\ connectionState = "connected"
    /\ Len(sent) = 2
    /\ sent[1] = JoinMsg
    /\ Len(sent[2].ops) >= 2

\* C3: every batch message sent holds each operation identity at most once.
C3_BatchHasNoDuplicate ==
    \A ops \in SentBatches : NoDup([i \in 1..Len(ops) |-> opKey(ops[i])])

\* C4: each operation identity is in at most one sent batch message: a
\* callback never sends an identity that an earlier batch already carried.
C4_SentAtMostOnce ==
    [][\A i \in Batches(sent') : Keys(sent'[i].ops) \cap everSent = {}]_vars

\* C5: sentOps never holds more than SENT_OPS_LIMIT identities, and a
\* queueOperation call that inserts a new identity into a full window
\* evicts exactly one entry, the one inserted earliest (a call that finds
\* the identity present, or room left, evicts nothing).
C5_WindowBoundedFifo ==
    /\ [](Len(sentOps) <= SENT_OPS_LIMIT /\ NoDup(sentOps))
    /\ [][(notifyPending /\ ~notifyPending' /\ subscribed /\ ~isProcessingRemote
             /\ Len(pendingOps) = 1) =>
            LET k == opKey(pendingOps[1])
            IN  IF Has(sentOps, k)
                THEN sentOps' = sentOps /\ evicted' = evicted
                ELSE IF Len(sentOps) < SENT_OPS_LIMIT
                THEN sentOps' = Append(sentOps, k) /\ evicted' = evicted
                ELSE /\ sentOps' = Append(Tail(sentOps), k)
                     /\ evicted' = evicted \cup {sentOps[1]}]_vars

\* C5 witness: the window is full and its earliest entry has been evicted
\* while a later one stayed.
C5_Witness ==
    /\ Len(sentOps) = SENT_OPS_LIMIT
    /\ evicted # {}
    /\ \E k \in evicted : ~Has(sentOps, k)

\* C6: an operation in pendingBatch stays there, at its position, until a
\* flush sends the whole of pendingBatch in a batch message.
C6_PendingKeptUntilSent ==
    [][\/ IsPrefix(pendingBatch, pendingBatch')
       \/ /\ pendingBatch' = <<>>
          /\ sent' # <<>>
          /\ sent'[Len(sent')] = BatchMsg(pendingBatch)]_vars

\* C6 witness: buffered operations have outlived a deferred flush and two
\* closes, and a third connection is being made.
C6_Witness ==
    /\ pendingBatch # <<>>
    /\ Idle
    /\ closeRun >= 2
    /\ connectionState = "connecting"

\* C7: the notification that a remote apply (an inbound message) triggers
\* adds nothing to pendingBatch or sentOps.
C7_RemoteApplyQueuesNothing ==
    [][(notifyPending /\ inboundDirty /\ ~notifyPending') =>
          (pendingBatch' = pendingBatch /\ sentOps' = sentOps)]_vars

\* C8: isProcessingRemote is clear whenever handleMessage has been left,
\* also when applying a remote operation threw.
C8_FlagClearedOnExit ==
    isProcessingRemote = FALSE

\* C9: the delay of the reconnection scheduled by a close that follows k
\* closes in a row (no open in between) is min(base * 2^k, max): 1000, 2000,
\* 4000, 8000, 16000, 30000, 30000, ... ms, never more than max.
DefaultDelays == <<1000, 2000, 4000, 8000, 16000, 30000, 30000, 30000, 30000, 30000>>
C9_BackoffDelays ==
    /\ lastDelay <= RECONNECT_MAX_DELAY_MS
    /\ reconnectTimer =>
         /\ closeRun >= 1
         /\ LET exp == RECONNECT_BASE_DELAY_MS * Pow2(closeRun - 1)
            IN  lastDelay = IF exp < RECONNECT_MAX_DELAY_MS THEN exp ELSE RECONNECT_MAX_DELAY_MS
         /\ closeRun <= Len(DefaultDelays) => lastDelay = DefaultDelays[closeRun]

\* C9 witness: the sixth close in a row has scheduled its reconnection with
\* the capped delay (32000 is cut to 30000).
C9_Witness ==
    /\ reconnectTimer
    /\ closeRun = 6
    /\ lastDelay = RECONNECT_MAX_DELAY_MS

\* C10: after RECONNECT_MAX_ATTEMPTS reconnections without an open, the next
\* close sets 'disconnected' and arms no reconnect timer; once the state is
\* 'disconnected' it stays so and no socket is connecting or open again.
C10_DisconnectedIsTerminal ==
    /\ [][(closeRun = RECONNECT_MAX_ATTEMPTS /\ closeRun' = closeRun + 1) =>
            (connectionState' = "disconnected" /\ ~reconnectTimer')]_vars
    /\ [][connectionState = "disconnected" =>
            /\ connectionState' = "disconnected"
            /\ ~reconnectTimer'
            /\ readyState' \notin {"CONNECTING", "OPEN"}]_vars

\* C10 witness: the transport gave up: eleven connections failed in a row
\* and the session was not disposed.
C10_Witness ==
    /\ connectionState = "disconnected"
    /\ ~isDisposed
    /\ closeRun = RECONNECT_MAX_ATTEMPTS + 1
    /\ ~reconnectTimer

\* C11: dispose() called while a flush timer is pending and pendingBatch is
\* not empty sends the pending batch, once, in that call, and after
\* dispose() has returned no flush timer and no reconnect timer fires.
C11_DisposeSendsPendingOnce ==
    [][/\ (~isDisposed /\ isDisposed' /\ batchTimeout /\ pendingBatch # <<>>) =>
             sent' = <<BatchMsg(pendingBatch)>>
       /\ isDisposed =>
             /\ orphanTimers' = orphanTimers
             /\ batchTimeout' = batchTimeout
             /\ reconnectTimer' = reconnectTimer]_vars

\* C12: in every step after dispose() has returned nothing is sent, no
\* connection is opened, and nothing is added to pendingBatch or to sentOps:
\* not by a timer that was pending at dispose(), not by a local mutation.
C12_NothingAfterDispose ==
    [][isDisposed =>
          /\ sent' = <<>>
          /\ readyState' \notin {"CONNECTING", "OPEN"}
          /\ joins' = joins
          /\ IsPrefix(pendingBatch', pendingBatch)
          /\ Range(sentOps') \subseteq Range(sentOps)]_vars

\* C12 witness: the session is disposed with operations still buffered, a
\* flush timer armed before dispose() has yet to fire, and a local mutation
\* made after dispose() reports an operation the window has not seen.
C12_Witness ==
    /\ isDisposed
    /\ orphanTimers > 0
    /\ pendingBatch # <<>>
    /\ notifyPending
    /\ \E i \in 1..Len(pendingOps) : ~Has(sentOps, opKey(pendingOps[i]))

\* C13: with undo enabled, this agent alone and one notification per local
\* edit, the live text is the text of the timeline at the place the undo()
\* and redo() calls made so far lead to: k undo() calls after t0 .. tn leave
\* t(n-k), j redo() calls after them leave t(n-k+j).
C13_UndoRedoWalkTimeline ==
    Alone => text = timeline[cursor]

\* C13 witness: two local edits, two undo() calls, then redo(): the text is
\* the one after the first edit.
C13_Witness ==
    /\ Alone
    /\ lastOp = "redo"
    /\ Len(timeline) = 3
    /\ cursor = 2
    /\ text = timeline[2]
    /\ timeline[1] # timeline[2] /\ timeline[2] # timeline[3] /\ timeline[1] # timeline[3]

\* C14: undo() and redo() take nothing away that a remote operation put
\* into the text: the remote characters in the live text are still there
\* when the call returns.
C14_UndoKeepsRemoteText ==
    [][lastOp' \in {"undo", "redo"} => Len(Remote(text')) >= Len(Remote(text))]_vars

\* C15: a remote apply leaves the undo stack and the redo stack as they
\* were, and so does the change notification that follows it.
C15_RemoteApplyKeepsStacks ==
    [][(lastOp' = "remote" \/ (lastOp = "remote" /\ lastOp' = "notify")) =>
          (undoStack' = undoStack /\ redoStack' = redoStack)]_vars

\* C15 witness: a remote operation has just changed the text while both
\* stacks hold snapshots, and its notification is still to run.
C15_Witness ==
    /\ lastOp = "remote"
    /\ trackPending
    /\ Remote(text) # <<>>
    /\ undoStack # <<>>
    /\ redoStack # <<>>

\* C16: when the redo stack is not empty (undo() was called), the
\* notification of a new local edit (tracking not suppressed, live text
\* different from lastText) empties the redo stack; redo() on an empty redo
\* stack changes nothing.
C16_NewEditClearsRedo ==
    /\ [][(lastOp' = "notify" /\ redoStack # <<>> /\ ~isSuppressed /\ text # lastText) =>
             redoStack' = <<>>]_vars
    /\ [][(lastOp' = "redo" /\ redoStack = <<>>) =>
             (text' = text /\ undoStack' = undoStack /\ redoStack' = redoStack)]_vars

\* C16 witness: after an undo() the agent has made a new local edit, whose
\* notification is about to run with tracking on.
C16_Witness ==
    /\ redoStack # <<>>
    /\ lastOp = "edit"
    /\ trackPending
    /\ ~isSuppressed
    /\ text # lastText

\* C17 as stated: isSuppressed is off whenever apply_remote_op, undo() or
\* redo() has returned or thrown.
C17_FlagOffAfterCall ==
    [][lastOp' \in {"remote", "undo", "redo"} => ~isSuppressed']_vars

\* C17 amended: isSuppressed is off when apply_remote_op has returned or
\* thrown and when an undo() or redo() that found a snapshot has returned;
\* an undo() or redo() that finds its stack empty leaves the flag as it was.
C17_FlagOffAfterEffectiveCall ==
    [][/\ lastOp' = "remote" => ~isSuppressed'
       /\ lastOp' = "undo" =>
             isSuppressed' = (IF undoStack = <<>> THEN isSuppressed ELSE FALSE)
       /\ lastOp' = "redo" =>
             isSuppressed' = (IF redoStack = <<>> THEN isSuppressed ELSE FALSE)]_vars

\* C17 witness: apply_remote_op has thrown on a malformed operation while
\* snapshots were held: the text, not empty, is as before (an Insert or a
\* Delete would have changed it and scheduled a notification) and the flag
\* is off.
C17_Witness ==
    /\ lastOp = "remote"
    /\ ~trackPending
    /\ text # <<>>
    /\ ~isSuppressed
    /\ undoStack # <<>>
    /\ text = lastText

\* C18: lastText differs from the live text only while a notification is
\* scheduled or suppression is on; it equals the live text after a
\* notification processed with suppression off, after an undo() or redo()
\* that restored a snapshot, after a remote apply and after
\* suppressUndoTracking(false).
C18_LastTextIsLiveText ==
    [][/\ lastText' # text' => (trackPending' \/ isSuppressed')
       /\ (lastOp' = "notify" /\ ~isSuppressed) => lastText' = text'
       /\ (lastOp' = "undo" /\ undoStack # <<>>) => lastText' = text'
       /\ (lastOp' = "redo" /\ redoStack # <<>>) => lastText' = text'
       /\ lastOp' \in {"remote", "lift"} => lastText' = text']_vars

\* C18 witness: an undo() has just restored a snapshot that differs from
\* the text it replaced, while a redo snapshot was already held.
C18_Witness ==
    /\ lastOp = "undo"
    /\ Len(redoStack) >= 2
    /\ text # Top(redoStack)
    /\ lastText = text

\* C19: a notification that runs while tracking is suppressed changes
\* neither stack; suppressUndoTracking(false) sets lastText to the live
\* text; the notification of the local edits made after it pushes one
\* snapshot, the live text at the moment suppression was lifted (and
\* nothing if the text is that text again).
C19_SuppressedEditsThenResync ==
    [][/\ (lastOp' = "notify" /\ isSuppressed) =>
             (undoStack' = undoStack /\ redoStack' = redoStack)
       /\ lastOp' = "lift" => (lastText' = text' /\ ~isSuppressed')
       /\ (lastOp' = "notify" /\ liftedAt # <<>>) =>
             undoStack' = IF text # liftedAt[1]
                          THEN Append(undoStack, liftedAt[1])
                          ELSE undoStack]_vars

\* C19 witness: suppression was lifted when the live text was no longer the
\* text lastText held, a local edit followed and its notification is about
\* to run.
C19_Witness ==
    /\ liftedAt # <<>>
    /\ liftedAt[1] # liftedAt[2]
    /\ lastOp = "edit"
    /\ trackPending
    /\ text # liftedAt[1]
    /\ undoStack # <<>>

\* s is t with some elements left out
RECURSIVE IsSubseq(_, _)
IsSubseq(s, t) ==
    IF s = <<>> THEN TRUE
    ELSE IF t = <<>> THEN FALSE
    ELSE IF Head(s) = Head(t) THEN IsSubseq(Tail(s), Tail(t))
    ELSE IsSubseq(s, Tail(t))

\* C20: a callback sends at most one batch message; the message carries
\* pendingBatch as it stands, and pendingBatch grows at its end only, by
\* operations in the order the collaborator reported them: a batch lists
\* its operations in the order they were queued.
C20_OneBatchInQueueOrder ==
    [][/\ Cardinality(Batches(sent')) <= 1
       /\ \A i \in Batches(sent') : sent'[i].ops = pendingBatch
       /\ Batches(sent') = {} =>
             /\ IsPrefix(pendingBatch, pendingBatch')
             /\ IsSubseq(SubSeq(pendingBatch', Len(pendingBatch) + 1, Len(pendingBatch')),
                         pendingOps)]_vars

\* C20 witness: one batch message carried more operations than one
\* notification reports: they were queued by several notifications.
C20_Witness ==
    \E i \in Batches(sent) :
        /\ Len(sent[i].ops) > MaxPending
        /\ \E j, k \in 1..Len(sent[i].ops) : j < k /\ sent[i].ops[j].lv > sent[i].ops[k].lv

\* C23: a close that comes after dispose() sets 'disconnected' and arms no
\* reconnect timer, whatever reconnectAttempts is.
C23_CloseWhileDisposed ==
    [][(isDisposed /\ closeRun' = closeRun + 1) =>
          /\ connectionState' = "disconnected"
          /\ ~reconnectTimer'
          /\ reconnectAttempts' = reconnectAttempts]_vars

\* C23 witness: the session was disposed while it was retrying (the retry
\* counter is neither zero nor at the limit) and its socket has closed.
C23_Witness ==
    /\ isDisposed
    /\ readyState = "CLOSED"
    /\ connectionState = "disconnected"
    /\ reconnectAttempts > 1
    /\ reconnectAttempts < RECONNECT_MAX_ATTEMPTS
    /\ closeRun = reconnectAttempts + 1
    /\ ~reconnectTimer

\* C25: while a socket is open the retry counter is zero; the close of an
\* open socket (not disposed) schedules the reconnection with the base
\* delay, and from then on RECONNECT_MAX_ATTEMPTS closes in a row are
\* retried before the transport gives up.
C25_OpenResetsBackoff ==
    /\ [][readyState' = "OPEN" => reconnectAttempts' = 0]_vars
    /\ [][(readyState = "OPEN" /\ ~isDisposed /\ closeRun' = closeRun + 1) =>
             /\ connectionState' = "reconnecting"
             /\ reconnectTimer'
             /\ lastDelay' = RECONNECT_BASE_DELAY_MS
             /\ reconnectAttempts' = 1]_vars
    /\ [][(~isDisposed /\ closeRun' = closeRun + 1) =>
             (reconnectTimer' <=> closeRun < RECONNECT_MAX_ATTEMPTS)]_vars

\* C25 witness: a socket is open after three connections in a row had
\* failed (the last reconnection waited 4000 ms), and the counter is zero.
C25_Witness ==
    /\ readyState = "OPEN"
    /\ ~isDisposed
    /\ lastDelay = 4 * RECONNECT_BASE_DELAY_MS
    /\ reconnectAttempts = 0
    /\ closeRun = 0

\* C26: when no connection opens and the session is not disposed, the
\* transport is only ever 'connecting' or 'reconnecting' until it is
\* 'disconnected', which it comes to be, for good, when the initial
\* connection and RECONNECT_MAX_ATTEMPTS reconnections have failed.
C26_GivesUpAfterMaxAttempts ==
    /\ [](connectionState \in {"connecting", "reconnecting", "disconnected"})
    /\ [](connectionState = "disconnected" <=>
             (closeRun = RECONNECT_MAX_ATTEMPTS + 1 /\ reconnectAttempts = RECONNECT_MAX_ATTEMPTS))
    /\ <>[](connectionState = "disconnected")

\* C26 witness: the transport gave up after the eleventh socket closed, the
\* last reconnection having waited the capped delay, with operations still
\* buffered.
C26_Witness ==
    /\ connectionState = "disconnected"
    /\ readyState = "CLOSED"
    /\ reconnectAttempts = RECONNECT_MAX_ATTEMPTS
    /\ lastDelay = RECONNECT_MAX_DELAY_MS
    /\ pendingBatch # <<>>

\* C30: at most one flush timer is armed at any time.
C30_OneFlushTimer ==
    orphanTimers + (IF batchTimeout THEN 1 ELSE 0) <= 1

\* C21: undo() on an empty undo stack, redo() on an empty redo stack, and
\* undo() or redo() of a session created without undoManager leave the live
\* text, both stacks, lastText and the suppression flag as they were.
C21_EmptyUndoRedoChangeNothing ==
    /\ [][(lastOp' = "undo" /\ (~undoManager \/ undoStack = <<>>)) =>
             UNCHANGED <<text, undoStack, redoStack, lastText, isSuppressed>>]_vars
    /\ [][(lastOp' = "redo" /\ (~undoManager \/ redoStack = <<>>)) =>
             UNCHANGED <<text, undoStack, redoStack, lastText, isSuppressed>>]_vars

\* C21 witness: undo() has returned on an empty undo stack (the redo stack
\* is empty too, so it restored nothing) while tracking was suppressed and
\* the live text was ahead of lastText.
C21_Witness ==
    /\ undoManager
    /\ lastOp = "undo"
    /\ undoStack = <<>>
    /\ redoStack = <<>>
    /\ isSuppressed
    /\ text # lastText

\* C29: a notification that runs unsuppressed while the live text equals
\* lastText leaves the undo stack, the redo stack and lastText as they were.
C29_SameTextNotificationKeepsStacks ==
    [][(lastOp' = "notify" /\ ~isSuppressed /\ text = lastText) =>
          UNCHANGED <<undoStack, redoStack, lastText>>]_vars

\* C29 witness: a notification has just run with tracking on and the redo
\* stack still holds a snapshot: the text was lastText (a notification of a
\* changed text would have emptied the redo stack).
C29_Witness ==
    /\ lastOp = "notify"
    /\ ~isSuppressed
    /\ redoStack # <<>>
    /\ undoStack # <<>>
    /\ text = lastText

\* C28: apply_remote_op clamps the position to the length of the text.  An
\* Insert with content at p gives text[0..q) + content + text[q..) with
\* q = min(p, len); an Insert without content changes nothing; a Delete at
\* p < len removes exactly one character, the one at index p, and a Delete at
\* p >= len changes nothing; no operation is rejected.
C28_ApplyClampsPosition ==
    [][lastOp' = "remote" =>
          LET op == received'.ops[1]
              p == op.origin_left
              len == Len(text)
              q == IF p < len THEN p ELSE len
              from == IF q < 0 THEN 0 ELSE q
          IN  /\ ~apply_remote_op(text, op).threw
              /\ (op.op_type = "Insert" /\ op.content # <<>>) =>
                    text' = SubSeq(text, 1, from) \o op.content \o SubSeq(text, from + 1, len)
              /\ (op.op_type = "Insert" /\ op.content = <<>>) => text' = text
              /\ (op.op_type = "Delete" /\ p < len) =>
                    /\ Len(text') = len - 1
                    /\ \A i \in 1..(len - 1) : text'[i] = IF i <= p THEN text[i] ELSE text[i + 1]
              /\ (op.op_type = "Delete" /\ p >= len) => text' = text]_vars

\* The text after every operation of the array has been applied once, in
\* array order (an element that is no operation applies nothing).
RECURSIVE EachOnceInOrder(_, _)
EachOnceInOrder(t, ops) ==
    IF ops = <<>>
    THEN t
    ELSE EachOnceInOrder(IF Head(ops) = Malformed THEN t
                         ELSE apply_remote_op(t, Head(ops)).text,
                         Tail(ops))

\* C27: an inbound `operation` message applies its one operation once, an
\* inbound `batch` or `sync` message applies every operation of its array
\* once in array order, and a message of another type, or a `batch`/`sync`
\* without operations, changes no state.
C27_DispatchAppliesEachOnce ==
    [][received' # NoMessage =>
          /\ received'.type \in {"operation", "batch", "sync"} =>
                text' = EachOnceInOrder(text, received'.ops)
          /\ (received'.type \notin {"operation", "batch", "sync"} \/ received'.ops = <<>>) =>
                UNCHANGED <<text, isProcessingRemote, notifyPending, pendingOps,
                            pendingBatch, sentOps, batchTimeout, connectionState,
                            readyState, reconnectAttempts, reconnectTimer,
                            subscribed, isDisposed>>]_vars

\* C24: while a `batch` or `sync` message is handled, both suppression flags
\* (network echo and undo tracking) are switched on once before the first
\* operation and off once after the last: neither is off between two
\* operations of the message, and both are off when the handler is left.
C24_OneSuppressionWindowPerBatch ==
    [][(received' # NoMessage /\ received'.type \in {"batch", "sync"}) =>
          /\ \A i \in 1..Len(flagTrace') :
                flagTrace'[i].isProcessingRemote /\ flagTrace'[i].isSuppressed
          /\ ~isProcessingRemote'
          /\ ~isSuppressed']_vars

\* C22: undo state is private to a session, also between sessions created
\* with the same agentId: an edit, notification, undo(), redo() or remote
\* apply of the peer's session leaves this session's undo stack, redo stack
\* and lastText unchanged, and every operation of this session leaves the
\* peer's unchanged.
C22_UndoStatePrivateToSession ==
    /\ AgentIdOf("peer") = AgentIdOf("self")
    /\ [][lastOp' = "peer" => UNCHANGED <<undoStack, redoStack, lastText>>]_vars
    /\ [][lastOp' # "peer" =>
             /\ peer'.undoStack = peer.undoStack
             /\ peer'.redoStack = peer.redoStack
             /\ peer'.lastText = peer.lastText]_vars

\* C22 witness: both sessions have recorded edits of their own, the peer has
\* just pushed an edit on its undo stack, and the stacks differ.
C22_Witness ==
    /\ lastOp = "peer"
    /\ ~peer.trackPending
    /\ Len(peer.undoStack) = MaxEdits
    /\ undoStack # <<>>
    /\ redoStack # <<>>
    /\ peer.text # text

\* C32: a transport has at most one connection that is connecting or open
\* and at most one reconnect timer armed; a reconnect timer is armed only
\* while the state is `reconnecting`; a new connection is created only when
\* the one before it has closed.
C32_OneConnectionOneTimer ==
    /\ [](liveSockets <= 1 /\ armedReconnects <= 1)
    /\ [](armedReconnects > 0 => connectionState = "reconnecting")
    /\ [][liveSockets' > liveSockets => (liveSockets = 0 /\ readyState = "CLOSED")]_vars

\* C32 witness: a reconnect timer has fired more than once and created a new
\* connection, which is the only one.
C32_Witness ==
    /\ connectionState = "connecting"
    /\ reconnectAttempts > 1
    /\ liveSockets = 1
    /\ armedReconnects = 0

\* C33: the retry counter is between 0 and RECONNECT_MAX_ATTEMPTS, and it is
\* 0 whenever the state is `connected`.
C33_RetryCounterInRange ==
    /\ reconnectAttempts \in 0..RECONNECT_MAX_ATTEMPTS
    /\ connectionState = "connected" => reconnectAttempts = 0

\* C33 witness: the counter has reached RECONNECT_MAX_ATTEMPTS and the
\* transport has given up.
C33_Witness ==
    /\ reconnectAttempts = RECONNECT_MAX_ATTEMPTS
    /\ connectionState = "disconnected"
    /\ ~isDisposed

\* C37: after dispose() the connection state becomes 'disconnected',
\* whatever it was when dispose() was called, and once it is 'disconnected'
\* after dispose() it never changes.
C37_DisposedBecomesDisconnected ==
    /\ [](isDisposed => <>(connectionState = "disconnected"))
    /\ [][(isDisposed /\ connectionState = "disconnected") =>
             connectionState' = "disconnected"]_vars

\* C34: undo() and redo() conserve history.  An effective call moves one
\* snapshot from one stack to the other, so the two lengths together stay
\* the same; undo() followed at once by redo() (nothing but the scheduled
\* notification in between) brings the live text and both stacks back to
\* what they were before the undo().
C34_UndoRedoConserveHistory ==
    /\ [][(lastOp' = "undo" /\ undoManager /\ undoStack # <<>>) =>
             /\ Len(undoStack') = Len(undoStack) - 1
             /\ Len(redoStack') = Len(redoStack) + 1]_vars
    /\ [][(lastOp' = "redo" /\ undoManager /\ redoStack # <<>>) =>
             /\ Len(redoStack') = Len(redoStack) - 1
             /\ Len(undoStack') = Len(undoStack) + 1]_vars
    /\ [][(lastOp' = "redo" /\ Len(beforeUndo) = 3) =>
             <<text', undoStack', redoStack'>> = beforeUndo]_vars

\* C34 witness: redo() has run straight after an effective undo(), both
\* stacks hold a snapshot, and text and stacks are those before the undo().
C34_Witness ==
    /\ lastOp = "redo"
    /\ Len(beforeUndo) = 1
    /\ beforeUndo[1] = <<text, undoStack, redoStack>>
    /\ undoStack # <<>>
    /\ redoStack # <<>>

\* C35: suppression switched on with suppressUndoTracking(true) stays on
\* until suppressUndoTracking(false) is called, also across undo(), redo()
\* and remote applies, and no notification of a local edit in between
\* pushes an undo snapshot.  (Between calls the flag is on only if
\* suppressUndoTracking(true) set it: every other operation that sets it
\* clears it before it returns.)
C35_SuppressionLastsUntilLifted ==
    [][/\ (isSuppressed /\ lastOp' # "lift") => isSuppressed'
       /\ (isSuppressed /\ lastOp' = "notify") => undoStack' = undoStack]_vars

\* C36: with a transport configured, the notification that a remote
\* operation applied through the public applyRemoteOp triggers adds nothing
\* to pendingBatch or sentOps and sends nothing.
C36_PublicApplyQueuesNothing ==
    [][(lastOp = "remote" /\ notifyPending /\ inboundDirty /\ ~notifyPending') =>
          /\ pendingBatch' = pendingBatch
          /\ sentOps' = sentOps
          /\ sent' = <<>>]_vars

\* C31: between callbacks, whenever the transport is connected, not disposed
\* and pendingBatch is not empty, a flush timer is armed; so, with timers
\* that fire, an operation that is in pendingBatch while connected is sent
\* in a batch message unless the connection does not stay open.
C31_PendingWhileConnectedIsSent ==
    /\ []((connectionState = "connected" /\ ~isDisposed /\ pendingBatch # <<>>) =>
             batchTimeout)
    /\ \A op \in Ops :
          []((connectionState = "connected" /\ op \in Range(pendingBatch)) =>
                <>(\/ \E i \in Batches(sent) : op \in Range(sent[i].ops)
                   \/ connectionState # "connected"))

\* C31 witness: the flush timer armed for operations queued on an open
\* connection has fired and sent them, after an earlier batch on the same
\* connection.
C31_Witness ==
    /\ connectionState = "connected"
    /\ ~isDisposed
    /\ joins = 1
    /\ Len(sent) = 1
    /\ sent[1].type = "batch"
    /\ everSent # Keys(sent[1].ops)
    /\ pendingBatch = <<>>

====
